---- MODULE Spec2Model ----
(***************************************************************************)
(* d2b: resolution of DOI and arXiv identifiers into BibTeX records.       *)
(* Text is modelled as sequences of one-character strings, so that the     *)
(* regular expressions, trimming and replacement of src/main.rs are        *)
(* computed character by character.                                        *)
(***************************************************************************)
EXTENDS Integers, Sequences, FiniteSets, TLC

\* ------------------------------------------------------------------ text

\* The characters the model's texts are written in, in ascending byte order
\* (str comparison in pats.sort() is byte-wise lexicographic).
Ascii ==
  <<"\t", "\n", " ", "(", ")", ",", "-", ".", "/",
    "0", "1", "2", "3", "4", "5", "6", "7", "8", "9",
    ":", ";", "<", "=", ">", "@",
    "A", "B", "C", "D", "E", "F", "G", "H", "I", "J", "K", "L", "M",
    "N", "O", "P", "Q", "R", "S", "T", "U", "V", "W", "X", "Y", "Z",
    "_",
    "a", "b", "c", "d", "e", "f", "g", "h", "i", "j", "k", "l", "m",
    "n", "o", "p", "q", "r", "s", "t", "u", "v", "w", "x", "y", "z",
    "{", "}">>

Range(f) ==
  {f[i] : i \in DOMAIN f}

Alphabet ==
  Range(Ascii)

Code(c) ==
  CHOOSE i \in 1..Len(Ascii) : Ascii[i] = c

\* regex classes: \d, [a-z], \w, \s, . and [^\s]
Digit ==
  {"0", "1", "2", "3", "4", "5", "6", "7", "8", "9"}

Lower ==
  {"a", "b", "c", "d", "e", "f", "g", "h", "i", "j", "k", "l", "m",
   "n", "o", "p", "q", "r", "s", "t", "u", "v", "w", "x", "y", "z"}

Upper ==
  {"A", "B", "C", "D", "E", "F", "G", "H", "I", "J", "K", "L", "M",
   "N", "O", "P", "Q", "R", "S", "T", "U", "V", "W", "X", "Y", "Z"}

WordChar ==
  Digit \cup Lower \cup Upper \cup {"_"}

Space ==
  {" ", "\t", "\n"}

AnyChar ==
  Alphabet \ {"\n"}

NonSpace ==
  Alphabet \ Space

\* the class [-\._;()/:\w\d] of the general DOI pattern
DoiSuffixChar ==
  WordChar \cup {"-", ".", "_", ";", "(", ")", "/", ":"}

Max(S) ==
  CHOOSE m \in S : \A n \in S : n <= m

Min(S) ==
  CHOOSE m \in S : \A n \in S : m <= n

\* the first non-zero element of the list v, or 0
FirstHit(v) ==
  IF \A j \in 1..Len(v) : v[j] = 0 THEN 0
  ELSE v[Min({j \in 1..Len(v) : v[j] # 0})]

\* the character of s at i, or "" beyond either end ("" is in no class)
At(s, i) ==
  IF i >= 1 /\ i <= Len(s) THEN s[i] ELSE ""

\* lit occurs in s at i
IsLit(s, i, lit) ==
  /\ i >= 1
  /\ i + Len(lit) - 1 <= Len(s)
  /\ \A k \in 1..Len(lit) : s[i + k - 1] = lit[k]

\* as IsLit, ignoring ASCII case (the (?i) flag)
Fold(c) ==
  IF c \in Upper THEN Ascii[Code(c) + (Code("a") - Code("A"))] ELSE c

IsLitNoCase(s, i, lit) ==
  /\ i >= 1
  /\ i + Len(lit) - 1 <= Len(s)
  /\ \A k \in 1..Len(lit) : Fold(s[i + k - 1]) = Fold(lit[k])

\* the last index of the longest run of characters of C starting at i
\* (i - 1 when s[i] is not in C): a greedy C*
RunEnd(s, i, C) ==
  IF i > Len(s) THEN i - 1
  ELSE Min({j \in i..(Len(s) + 1) : At(s, j) \notin C}) - 1

\* str::contains
Contains(s, lit) ==
  \E i \in 1..Len(s) : IsLit(s, i, lit)

\* str::trim_end_matches("/")
trim_end_matches(s, c) ==
  LET keep == {j \in 1..Len(s) : s[j] # c}
  IN  IF keep = {} THEN << >> ELSE SubSeq(s, 1, Max(keep))

\* str::trim: leading and trailing whitespace removed
TrimStart(s) ==
  SubSeq(s, RunEnd(s, 1, Space) + 1, Len(s))

TrimEnd(s) ==
  LET keep == {j \in 1..Len(s) : s[j] \notin Space}
  IN  IF keep = {} THEN << >> ELSE SubSeq(s, 1, Max(keep))

Trim(s) ==
  TrimEnd(TrimStart(s))

\* str::replace: every non-overlapping occurrence of from, left to right
RECURSIVE ReplaceFrom(_, _, _, _)
ReplaceFrom(s, i, from, to) ==
  LET hits == {j \in i..Len(s) : IsLit(s, j, from)}
  IN  IF hits = {} THEN SubSeq(s, i, Len(s))
      ELSE LET j == Min(hits)
           IN  SubSeq(s, i, j - 1) \o to \o ReplaceFrom(s, j + Len(from), from, to)

Replace(s, from, to) ==
  ReplaceFrom(s, 1, from, to)

\* ------------------------------------------------- the regular expressions
\* Each XxxAt(s, i) is the index of the last character of the match of the
\* pattern that starts at i, or 0 when the pattern does not match at i,
\* following the regex crate's leftmost-first (greedy unless lazy) choice.

\* DOI_IDENT_RE  doi(?::|.org)
DOI_IDENT_RE_At(s, i) ==
  IF ~IsLit(s, i, <<"d","o","i">>) THEN 0
  ELSE IF At(s, i + 3) = ":" THEN i + 3
  ELSE IF At(s, i + 3) \in AnyChar /\ IsLit(s, i + 4, <<"o","r","g">>) THEN i + 6
  ELSE 0

\* ARXIV_IDENT_RE  (?i)arxiv(?-i)(?::|.org)
ARXIV_IDENT_RE_At(s, i) ==
  IF ~IsLitNoCase(s, i, <<"a","r","x","i","v">>) THEN 0
  ELSE IF At(s, i + 5) = ":" THEN i + 5
  ELSE IF At(s, i + 5) \in AnyChar /\ IsLit(s, i + 6, <<"o","r","g">>) THEN i + 8
  ELSE 0

\* /[-\._;()/:\w\d]+ at position j, the tail of the general DOI pattern
DoiTailAt(s, j) ==
  IF At(s, j) = "/" /\ At(s, j + 1) \in DoiSuffixChar
  THEN RunEnd(s, j + 1, DoiSuffixChar)
  ELSE 0

\* DOI_RE[0]  10.\d{4,9}/[-\._;()/:\w\d]+
\* \d{4,9} is greedy: 9 digits are tried first, then 8, down to 4
DoiGeneralAt(s, i) ==
  IF ~(IsLit(s, i, <<"1","0">>) /\ At(s, i + 2) \in AnyChar) THEN 0
  ELSE FirstHit([n \in 1..6 |->
                  IF \A k \in 1..(10 - n) : At(s, i + 2 + k) \in Digit
                  THEN DoiTailAt(s, i + 13 - n)
                  ELSE 0])

\* DOI_RE[1]  10.1002/[^\s]+
DoiWileyAt(s, i) ==
  IF /\ IsLit(s, i, <<"1","0">>)
     /\ At(s, i + 2) \in AnyChar
     /\ IsLit(s, i + 3, <<"1","0","0","2","/">>)
     /\ At(s, i + 8) \in NonSpace
  THEN RunEnd(s, i + 8, NonSpace)
  ELSE 0

\* a faulty VersionEnd: the version suffix is never matched
VersionEnd_NoSuffix(s, e) ==
  e

\* (?:v\d+)? after position e: the end of the optional version suffix
VersionEnd(s, e) ==
  IF At(s, e + 1) = "v" /\ At(s, e + 2) \in Digit
  THEN RunEnd(s, e + 2, Digit)
  ELSE e

\* ARXIV_RE[0]  \d{4}\.\d{4,5}(?:v\d+)?
ArxivModernAt(s, i) ==
  IF ~(/\ \A k \in 0..3 : At(s, i + k) \in Digit
       /\ At(s, i + 4) = "."
       /\ \A k \in 5..8 : At(s, i + k) \in Digit) THEN 0
  ELSE IF At(s, i + 9) \in Digit THEN VersionEnd(s, i + 9)
  ELSE VersionEnd(s, i + 8)

\* /\d{7}(?:v\d+)? at position j, the tail of the legacy pattern
LegacyTailAt(s, j) ==
  IF At(s, j) = "/" /\ \A k \in 1..7 : At(s, j + k) \in Digit
  THEN VersionEnd(s, j + 7)
  ELSE 0

\* (?:-[a-z]+)?/\d{7}(?:v\d+)? after position a1: with the optional group,
\* its [a-z]+ longest first (g choices), then without the group
LegacyRestAt(s, a1) ==
  LET g == IF At(s, a1 + 1) = "-" THEN RunEnd(s, a1 + 2, Lower) - (a1 + 1)
           ELSE 0
  IN  FirstHit([n \in 1..(g + 1) |->
                 IF n = g + 1 THEN LegacyTailAt(s, a1 + 1)
                 ELSE LegacyTailAt(s, a1 + g - n + 3)])

\* ARXIV_RE[1]  [a-z]+(?:-[a-z]+)?/\d{7}(?:v\d+)?
\* candidates in the order the backtracking matcher tries them: the longest
\* [a-z]+ first
ArxivLegacyAt(s, i) ==
  LET a == RunEnd(s, i, Lower)
  IN  FirstHit([n \in 1..(a - i + 1) |-> LegacyRestAt(s, a - n + 1)])

\* DOI_RE and ARXIV_RE: the k-th pattern of the array re_arr, matched at i
ReAt(re_arr, k, s, i) ==
  IF re_arr = "DOI_RE"
  THEN IF k = 1 THEN DoiGeneralAt(s, i) ELSE DoiWileyAt(s, i)
  ELSE IF k = 1 THEN ArxivModernAt(s, i) ELSE ArxivLegacyAt(s, i)

DOI_IDENT_RE_is_match(s) ==
  \E i \in 1..Len(s) : DOI_IDENT_RE_At(s, i) # 0

ARXIV_IDENT_RE_is_match(s) ==
  \E i \in 1..Len(s) : ARXIV_IDENT_RE_At(s, i) # 0

\* Regex::is_match of the k-th pattern of re_arr
is_match(re_arr, k, s) ==
  \E i \in 1..Len(s) : ReAt(re_arr, k, s, i) # 0

\* the leftmost match, given for each start i the end ends[i] of the match
\* there (0 for none), as a list of zero or one texts
Leftmost(s, ends) ==
  IF \A i \in 1..Len(s) : ends[i] = 0 THEN << >>
  ELSE LET i == Min({j \in 1..Len(s) : ends[j] # 0})
       IN  <<SubSeq(s, i, ends[i])>>

\* Regex::captures(..).get(0) of the k-th pattern of re_arr (filter_map
\* keeps the matches)
captures(re_arr, k, s) ==
  Leftmost(s, [i \in 1..Len(s) |-> ReAt(re_arr, k, s, i)])

\* lines 19-24 of extract_id, m being the matches of the patterns in
\* declaration order.  They are collected into an ArrayVec of capacity 1,
\* whose FromIterator panics when the iterator yields more than the
\* capacity; no match exits the process with "Invalid DOI or arXiv ID!".
Collect(m) ==
  IF Len(m) > 1 THEN [res |-> "panic", id |-> << >>]
  ELSE IF Len(m) = 0 THEN [res |-> "exit", id |-> << >>]
  ELSE [res |-> "ok", id |-> trim_end_matches(m[1], "/")]

\* extract_id: "ok" with the id, "exit" or "panic"
extract_id(re_arr, pat) ==
  Collect(captures(re_arr, 1, pat) \o captures(re_arr, 2, pat))

\* ------------------------------------------------------------- print_doi

\* DOI_FMT  ,(\s?\w+=\{.+?\})
\* \s? and \w+ are greedy (the longer choice is tried first), .+? is lazy
\* (the nearest closing brace after at least one character ends the match)
\* and . does not match a line feed.

\* \{.+?\} at f: the index of the closing brace that ends the match, or 0
FmtBraceAt(s, f) ==
  IF At(s, f) # "{" THEN 0
  ELSE FirstHit([n \in 1..(Len(s) - f - 1) |->
                  IF /\ s[f + 1 + n] = "}"
                     /\ \A j \in (f + 1)..(f + n) : s[j] \in AnyChar
                  THEN f + 1 + n
                  ELSE 0])

\* \w+=\{.+?\} at j
FmtFieldAt(s, j) ==
  LET w == RunEnd(s, j, WordChar)
  IN  FirstHit([n \in 1..(w - j + 1) |->
                 IF At(s, w - n + 2) = "=" THEN FmtBraceAt(s, w - n + 3) ELSE 0])

\* the whole pattern at i: the end of the match, or 0
DOI_FMT_At(s, i) ==
  IF At(s, i) # "," THEN 0
  ELSE FirstHit(<<IF At(s, i + 1) \in Space THEN FmtFieldAt(s, i + 2) ELSE 0,
                  FmtFieldAt(s, i + 1)>>)

\* DOI_FMT.replace_all(s, ",\n  $1") from position i on, ends[j] being the
\* end of the match at j: the non-overlapping matches, left to right, each
\* replaced by a comma, a line feed, two spaces and group 1
RECURSIVE ReplaceAllFmt(_, _, _)
ReplaceAllFmt(s, ends, i) ==
  IF \A j \in i..Len(s) : ends[j] = 0 THEN SubSeq(s, i, Len(s))
  ELSE LET j == Min({h \in i..Len(s) : ends[h] # 0})
       IN  SubSeq(s, i, j - 1) \o <<",","\n"," "," ">> \o SubSeq(s, j + 1, ends[j])
           \o ReplaceAllFmt(s, ends, ends[j] + 1)

replace_all(s) ==
  ReplaceAllFmt(s, [i \in 1..Len(s) |-> DOI_FMT_At(s, i)], 1)

print_doi(input) ==
  Replace(replace_all(Trim(input)), <<"}","}">>, <<"}","\n","}">>)

\* ----------------------------------------------------------- print_arxiv

\* str::split_whitespace: the maximal runs of non-whitespace characters
RECURSIVE split_whitespace(_)
split_whitespace(s) ==
  IF \A j \in 1..Len(s) : s[j] \in Space THEN << >>
  ELSE LET b == RunEnd(s, 1, Space) + 1
           e == RunEnd(s, b, NonSpace)
       IN  <<SubSeq(s, b, e)>> \o split_whitespace(SubSeq(s, e + 1, Len(s)))

\* [&str]::join(sep)
RECURSIVE join(_, _)
join(v, sep) ==
  IF Len(v) = 0 THEN << >>
  ELSE IF Len(v) = 1 THEN v[1]
  ELSE v[1] \o sep \o join(Tail(v), sep)

\* i32::to_string of a year that is not negative
RECURSIVE to_string(_)
to_string(n) ==
  IF n < 10 THEN <<Ascii[Code("0") + n]>>
  ELSE to_string(n \div 10) \o <<Ascii[Code("0") + (n % 10)]>>

\* the "Surname, Given Names" rendering of an author whose name tokens are
\* name_vec, with the separator ending after it (lines 79-93)
AuthorText(name_vec, ending) ==
  name_vec[Len(name_vec)] \o <<","," ">>
    \o join(SubSeq(name_vec, 1, Len(name_vec) - 1), <<" ">>) \o ending

RECURSIVE AuthorsFrom(_, _)
AuthorsFrom(entry, i) ==
  IF i > Len(entry.authors) THEN << >>
  ELSE AuthorText(split_whitespace(entry.authors[i]),
                  IF i # Len(entry.authors) THEN <<" ","a","n","d"," ">> ELSE << >>)
         \o AuthorsFrom(entry, i + 1)

\* a faulty DeclaresDoi: the declared DOI is overlooked
DeclaresDoi_Never(entry) ==
  FALSE

\* the entry declares a DOI in its arXiv extension block (line 67)
DeclaresDoi(entry) ==
  Len(entry.doi) > 0

\* lines 96-110: the record of an entry whose first author's name tokens
\* are name1, whose year is written year and whose id extracts to id
Synthesize(entry, name1, year, id) ==
  IF id.res # "ok" THEN [res |-> id.res, text |-> << >>, synth |-> TRUE]
  ELSE [res |-> "ok", synth |-> TRUE, text |->
         print_doi(<<"@","a","r","t","i","c","l","e","{">> \o name1[Len(name1)] \o <<"_">> \o year
                   \o <<",","t","i","t","l","e","=","{">> \o Replace(entry.title, <<"\n"," ">>, << >>)
                   \o <<"}",",","a","u","t","h","o","r","=","{">> \o AuthorsFrom(entry, 1)
                   \o <<"}",",","y","e","a","r","=","{">> \o year
                   \o <<"}",",","e","p","r","i","n","t","=","{">> \o id.id
                   \o <<"}",",","a","r","c","h","i","v","e","P","r","e","f","i","x","=","{","a","r","X","i","v","}",",","p","r","i","m","a","r","y","C","l","a","s","s","=","{">>
                   \o entry.categories[1] \o <<"}","}">>)]

\* print_arxiv up to its return or its nested request.  The result is
\*   exit     the process exits with "Invalid DOI or arXiv ID!"
\*   panic    an assert! or unwrap fails
\*   redirect the entry declares a DOI: text is the DOI to request
\*   ok       text is the synthesised record
\* synth tells whether the record synthesis (line 73 onwards) was entered.
print_arxiv(input) ==
  IF Len(input) = 0 THEN [res |-> "exit", text |-> << >>, synth |-> FALSE]
  ELSE
    LET entry == input[1] IN
    IF Len(entry.authors) = 0 \/ Len(entry.published) = 0 \/ Len(entry.id) = 0
    THEN [res |-> "exit", text |-> << >>, synth |-> FALSE]
    ELSE IF ~entry.arxiv THEN [res |-> "panic", text |-> << >>, synth |-> FALSE]
    ELSE IF DeclaresDoi(entry)
    THEN IF Len(entry.doi[1]) = 0 THEN [res |-> "panic", text |-> << >>, synth |-> FALSE]
         ELSE [res |-> "redirect", text |-> entry.doi[1], synth |-> FALSE]
    ELSE IF \E i \in 1..Len(entry.authors) :
              Len(split_whitespace(entry.authors[i])) = 0
    THEN [res |-> "panic", text |-> << >>, synth |-> TRUE]
    ELSE IF Len(entry.categories) = 0 THEN [res |-> "panic", text |-> << >>, synth |-> TRUE]
    ELSE
      Synthesize(entry, split_whitespace(entry.authors[1]),
                 to_string(entry.published[1]),
                 extract_id("ARXIV_RE", entry.id))

\* --------------------------------------------------------------- inputs

\* the largest number of command-line arguments of a multi-argument run
MaxArgs ==
  3

\* arXiv identifiers, modern and legacy, without and with a version suffix
ArxivIdents ==
  {<<"2","1","0","5",".","1","1","5","7","2">>, <<"1","9","1","2",".","0","2","5","9","9","v","2">>, <<"0","7","0","4",".","0","0","0","1">>, <<"m","a","t","h","/","0","5","0","6","2","0","3">>,
   <<"h","e","p","-","t","h","/","9","9","1","0","0","0","1">>, <<"h","e","p","-","t","h","/","9","9","1","0","0","0","1","v","2">>}

\* what a user may write before the identifier
ArxivPrefixes ==
  {<< >>, <<"a","r","x","i","v",":">>, <<"h","t","t","p","s",":","/","/","a","r","x","i","v",".","o","r","g","/","a","b","s","/">>}

\* an input holding exactly one arXiv identifier: prefix, then identifier
ArxivCases ==
  ArxivPrefixes \X ArxivIdents

ArxivPatterns ==
  {c[1] \o c[2] : c \in ArxivCases}

DoiPatterns ==
  {<<"1","0",".","1","0","0","0","/","x","y","z">>,               \* general shape
   <<"d","o","i",":","1","0",".","1","2","3","4","/","a","b","/">>,           \* marker, general shape, trailing slash
   <<"h","t","t","p","s",":","/","/","d","o","i",".","o","r","g","/","1","0",".","1","2","3","4","/","a","b">>,
   <<"1","0",".","1","2","3","4","/","/">>,                 \* a suffix of slashes only
   <<"1","0",".","1","0","0","2","/","<","a",">">>,               \* Wiley shape only
   <<"1","0",".","1","0","0","2","/","a","b","c">>,               \* Wiley shape and general shape
   <<"h","t","t","p","s",":","/","/","d","o","i",".","o","r","g","/">>,          \* marker without a shape
   <<"d","o","i",":","2","1","0","5",".","1","1","5","7","2">>,            \* DOI marker with an arXiv shape
   <<"1","0",".","1","2","3","4","/","2","1","0","5",".","1","1","5","7","2">>,        \* DOI shape holding an arXiv shape
   <<"a","r","x","i","v",":","1","0",".","1","2","3","4","/","x">>}           \* arXiv marker with a DOI shape

OtherPatterns ==
  {<<"h","e","l","l","o">>,                     \* no marker, no shape
   <<"a","r","x","i","v",":","a","b","c">>,                 \* arXiv marker without a shape
   <<"a","b","s","/","1","2","3","4","5","6","7",".","1","2","3","4">>}          \* legacy shape and modern shape

\* the arguments of a one-argument run
PatternSet ==
  ArxivPatterns \cup DoiPatterns \cup OtherPatterns

\* the arguments of a run with several arguments
BatchSet ==
  {<<"1","0",".","1","0","0","0","/","x","y","z">>, <<"m","a","t","h","/","0","5","0","6","2","0","3">>, <<"h","e","l","l","o">>}

RECURSIVE SeqsOf(_, _)
SeqsOf(S, n) ==
  IF n = 0 THEN {<< >>}
  ELSE {Append(v, p) : v \in SeqsOf(S, n - 1), p \in S}

Inputs ==
  {<<p>> : p \in PatternSet}
    \cup UNION {SeqsOf(BatchSet, n) : n \in 2..MaxArgs}

\* --- what the registries answer: Result<Response, reqwest::Error>
\* ok is FALSE for a transport error before the response head; readable is
\* FALSE when reading the body fails; text is the body; feed is the result
\* of parsing the body as an Atom feed: no element when it does not parse,
\* else the list of the feed's entries.
TransportError ==
  [ok |-> FALSE, status |-> 0, readable |-> FALSE, text |-> << >>,
   feed |-> << >>]

BodyError ==
  [ok |-> TRUE, status |-> 200, readable |-> FALSE, text |-> << >>,
   feed |-> << >>]

Http(status, text) ==
  [ok |-> TRUE, status |-> status, readable |-> TRUE, text |-> text,
   feed |-> << >>]

HttpFeed(status, entries) ==
  [ok |-> TRUE, status |-> status, readable |-> TRUE, text |-> <<"<","f","e","e","d",">">>,
   feed |-> <<entries>>]

DoiResponses ==
  {TransportError,
   BodyError,
   Http(404, <<"<","p",">","T","h","i","s"," ","D","O","I"," ","c","a","n","n","o","t"," ","b","e"," ","f","o","u","n","d"," ","i","n"," ","t","h","e"," ","D","O","I"," ","S","y","s","t","e","m","<","/","p",">">>),
   Http(500, <<"<","p",">","I","n","t","e","r","n","a","l"," ","S","e","r","v","e","r"," ","E","r","r","o","r","<","/","p",">">>),
   Http(200, <<" ","@","a","r","t","i","c","l","e","{","D","o","e","_","2","0","2","0",","," ","t","i","t","l","e","=","{","T","}",","," ","y","e","a","r","=","{","2","0","2","0","}"," ","}","\n">>),
   Http(200, <<"@","a","r","t","i","c","l","e","{","D","o","e","_","2","0","2","0",",","t","i","t","l","e","=","{","T","}",",","y","e","a","r","=","{","2","0","2","0","}","}">>),
   Http(200, <<"@","a","r","t","i","c","l","e","{","L","e","e","_","2","0","1","9",",","y","e","a","r","=","{","2","0","1","9","}",",","t","i","t","l","e","=","{","{","T","}","}","}">>)}

\* a complete entry without a declared DOI
Entry0 ==
  [authors    |-> <<<<"J","a","n","e"," "," ","Q","."," ","D","o","e">>, <<"L","i"," ","W","e","i">>>>,
   published  |-> <<2021>>,
   title      |-> <<"O","n","\n"," "," ","K","n","o","t","s">>,
   id         |-> <<"h","t","t","p",":","/","/","a","r","x","i","v",".","o","r","g","/","a","b","s","/","2","1","0","5",".","1","1","5","7","2","v","1">>,
   categories |-> <<<<"m","a","t","h",".","G","T">>, <<"h","e","p","-","t","h">>>>,
   arxiv      |-> TRUE,
   doi        |-> << >>]

Entries ==
  {Entry0,
   [Entry0 EXCEPT !.doi = <<<<"1","0",".","1","0","0","0","/","x","y","z">>>>],
   [Entry0 EXCEPT !.doi = <<<<"1","0",".","1","0","0","0","/","x","y","z">>>>, !.categories = << >>],
   [Entry0 EXCEPT !.doi = <<<<"1","0",".","1","0","0","0","/","x","y","z">>>>, !.authors = << >>],
   [Entry0 EXCEPT !.doi = << << >> >>],
   [Entry0 EXCEPT !.authors = << >>],
   [Entry0 EXCEPT !.published = << >>],
   [Entry0 EXCEPT !.id = << >>],
   [Entry0 EXCEPT !.categories = << >>],
   [Entry0 EXCEPT !.arxiv = FALSE],
   [Entry0 EXCEPT !.authors = <<<<"D","o","e">>, <<" ">>>>],
   [Entry0 EXCEPT !.id = <<"h","t","t","p",":","/","/","a","r","x","i","v",".","o","r","g","/","a","b","s","/">>, !.authors = <<<<"D","o","e">>>>]}

ArxivResponses ==
  {TransportError,
   BodyError,
   Http(200, <<"<","h","t","m","l",">">>),
   Http(500, <<"<","p",">","I","n","t","e","r","n","a","l"," ","S","e","r","v","e","r"," ","E","r","r","o","r","<","/","p",">">>),
   HttpFeed(200, << >>)}
    \cup {HttpFeed(200, <<e>>) : e \in Entries}

Responses(idtype) ==
  IF idtype = "Doi" THEN DoiResponses ELSE ArxivResponses

\* ------------------------------------------------------------ operations

\* &str comparison: byte-wise lexicographic
StrLess(a, b) ==
  \E k \in 1..(Len(a) + 1) :
    /\ \A j \in 1..(k - 1) : j <= Len(b) /\ a[j] = b[j]
    /\ k <= Len(b)
    /\ (k > Len(a) \/ Code(a[k]) < Code(b[k]))

\* v with x put in before the first element greater than x
Insert(v, x) ==
  LET n == Cardinality({j \in 1..Len(v) : ~StrLess(x, v[j])})
  IN  SubSeq(v, 1, n) \o <<x>> \o SubSeq(v, n + 1, Len(v))

\* Vec::sort
RECURSIVE sort(_)
sort(v) ==
  IF Len(v) = 0 THEN << >>
  ELSE Insert(sort(SubSeq(v, 1, Len(v) - 1)), v[Len(v)])

\* a faulty dedup: nothing is removed
dedup_None(v) ==
  v

\* Vec::dedup: of consecutive equal elements the first is kept
RECURSIVE dedup(_)
dedup(v) ==
  IF Len(v) <= 1 THEN v
  ELSE LET d == dedup(SubSeq(v, 1, Len(v) - 1))
       IN  IF d[Len(d)] = v[Len(v)] THEN d ELSE Append(d, v[Len(v)])

\* a faulty classify: the arXiv conditions are tested before the DOI ones
classify_ArxivFirst(pat) ==
  IF \/ ARXIV_IDENT_RE_is_match(pat)
     \/ \E k \in 1..2 : is_match("ARXIV_RE", k, pat)
  THEN "Arxiv"
  ELSE IF DOI_IDENT_RE_is_match(pat) \/ \E k \in 1..2 : is_match("DOI_RE", k, pat)
  THEN "Doi"
  ELSE "None"

\* the branch get_bibtex takes for pat (lines 155-165)
classify(pat) ==
  IF DOI_IDENT_RE_is_match(pat) \/ \E k \in 1..2 : is_match("DOI_RE", k, pat)
  THEN "Doi"
  ELSE IF \/ ARXIV_IDENT_RE_is_match(pat)
          \/ \E k \in 1..2 : is_match("ARXIV_RE", k, pat)
  THEN "Arxiv"
  ELSE "None"

\* the pattern array of a kind
re_arr(idtype) ==
  IF idtype = "Doi" THEN "DOI_RE" ELSE "ARXIV_RE"

\* handle_response up to its return or to the nested request of print_arxiv.
\*   exit      the process exits with "Invalid DOI or arXiv ID!"
\*   panic     an unwrap or assert! fails
\*   redirect  print_arxiv requests the DOI text
\*   ok        text is the returned record
\* synth tells whether the record synthesis of print_arxiv was entered.
handle_response(res, idtype) ==
  IF ~res.ok THEN [res |-> "exit", text |-> << >>, synth |-> FALSE]
  ELSE IF ~res.readable THEN [res |-> "panic", text |-> << >>, synth |-> FALSE]
  ELSE IF Contains(res.text, <<"c","a","n","n","o","t"," ","b","e"," ","f","o","u","n","d">>)
  THEN [res |-> "exit", text |-> << >>, synth |-> FALSE]
  ELSE IF idtype = "Doi"
  THEN [res |-> "ok", text |-> print_doi(res.text), synth |-> FALSE]
  ELSE IF Len(res.feed) = 0
  THEN [res |-> "panic", text |-> << >>, synth |-> FALSE]
  ELSE print_arxiv(res.feed[1])

\* ------------------------------------------------------------------ state

VARIABLES
  args,     \* the command-line arguments
  proc,     \* the process: "start", "run", "done", "exit" or "panic"
  pats,     \* the sorted, deduplicated patterns; task t resolves pats[t]
  task,     \* per task: pc, kind, id, requests sent, responses received,
            \* the returned record and whether it was synthesised
  stdout,   \* the records printed, in the order of printing
  stderr    \* the message of Error::exit

vars ==
  <<args, proc, pats, task, stdout, stderr>>

NewTask ==
  [pc |-> "new", idtype |-> "None", id |-> << >>, reqs |-> << >>,
   resps |-> << >>, val |-> << >>, synth |-> FALSE]

MsgUnrecognized ==
  "Please enter a valid DOI or arXiv ID!"

MsgInvalid ==
  "Invalid DOI or arXiv ID!"

Init ==
  /\ args \in Inputs
  /\ proc = "start"
  /\ pats = << >>
  /\ task = << >>
  /\ stdout = << >>
  /\ stderr = ""

\* Error::with_description(msg, ..).exit() in task t: the process ends
Exit(t, tk, msg) ==
  /\ task' = [task EXCEPT ![t] = [tk EXCEPT !.pc = "exited"]]
  /\ proc' = "exit"
  /\ stderr' = msg

\* main, lines 188-202: sort, dedup, one get_bibtex future per pattern
Main ==
  /\ proc = "start"
  /\ pats' = dedup(sort(args))
  /\ task' = [t \in 1..Len(pats') |-> NewTask]
  /\ proc' = "run"
  /\ UNCHANGED <<args, stdout, stderr>>

\* lines 154-166 of get_bibtex for a pattern of kind idtype whose
\* extraction gave x: the request is sent, or the task ends
Resolve(t, idtype, x) ==
  IF idtype = "None"
  THEN Exit(t, [task[t] EXCEPT !.idtype = idtype], MsgUnrecognized)
  ELSE IF x.res = "exit"
  THEN Exit(t, [task[t] EXCEPT !.idtype = idtype], MsgInvalid)
  ELSE /\ UNCHANGED <<proc, stderr>>
       /\ task' = [task EXCEPT ![t] =
            IF x.res = "panic"
            THEN [@ EXCEPT !.idtype = idtype, !.pc = "panicked"]
            ELSE [@ EXCEPT !.idtype = idtype, !.pc = "fetch", !.id = x.id,
                           !.reqs = <<[idtype |-> idtype, id |-> x.id]>>]]

\* extract_id as get_bibtex calls it: with the pattern array of the kind
\* (no call when the pattern is of no kind)
Extraction(idtype, pat) ==
  IF idtype = "None" THEN [res |-> "none", id |-> << >>]
  ELSE extract_id(re_arr(idtype), pat)

Classified(t, idtype) ==
  Resolve(t, idtype, Extraction(idtype, pats[t]))

\* get_bibtex, lines 153-166: classification, extraction and the request
GetBibtex(t) ==
  /\ proc = "run"
  /\ task[t].pc = "new"
  /\ Classified(t, classify(pats[t]))
  /\ UNCHANGED <<args, pats, stdout>>

\* the effect on task t of handle_response having run on the answer res
\* with the outcome out
Handled(t, res, out) ==
  IF out.res = "exit"
  THEN Exit(t, [task[t] EXCEPT !.resps = Append(@, res)], MsgInvalid)
  ELSE /\ UNCHANGED <<proc, stderr>>
       /\ task' = [task EXCEPT ![t] =
            IF out.res = "panic"
            THEN [@ EXCEPT !.resps = Append(@, res), !.synth = out.synth,
                           !.pc = "panicked"]
            ELSE IF out.res = "redirect"
            THEN [@ EXCEPT !.resps = Append(@, res),
                           !.reqs = Append(@, [idtype |-> "Doi", id |-> out.text])]
            ELSE [@ EXCEPT !.resps = Append(@, res), !.synth = out.synth,
                           !.pc = "ready", !.val = out.text]]

\* the answer to the outstanding request req of task t arrives
Answered(t, req) ==
  \E res \in Responses(req.idtype) :
    Handled(t, res, handle_response(res, req.idtype))

\* the answer to the outstanding request of task t arrives and
\* handle_response runs (lines 114-126, with print_doi and print_arxiv)
HandleResponse(t) ==
  /\ proc = "run"
  /\ task[t].pc = "fetch"
  /\ Answered(t, task[t].reqs[Len(task[t].reqs)])
  /\ UNCHANGED <<args, pats, stdout>>

\* main, lines 204-206: the value of a completed future is printed
Println(t) ==
  /\ proc = "run"
  /\ task[t].pc = "ready"
  /\ stdout' = Append(stdout, task[t].val)
  /\ task' = [task EXCEPT ![t].pc = "printed"]
  /\ UNCHANGED <<args, proc, pats, stderr>>

\* line 170: the JoinHandle of a panicked task yields an error and unwrap
\* panics in main
JoinPanic(t) ==
  /\ proc = "run"
  /\ task[t].pc = "panicked"
  /\ proc' = "panic"
  /\ UNCHANGED <<args, pats, task, stdout, stderr>>

\* main returns once every future has been printed
MainReturn ==
  /\ proc = "run"
  /\ \A t \in DOMAIN task : task[t].pc = "printed"
  /\ proc' = "done"
  /\ UNCHANGED <<args, pats, task, stdout, stderr>>

Next ==
  \/ Main
  \/ \E t \in DOMAIN task : GetBibtex(t)
  \/ \E t \in DOMAIN task : HandleResponse(t)
  \/ \E t \in DOMAIN task : Println(t)
  \/ \E t \in DOMAIN task : JoinPanic(t)
  \/ MainReturn

Spec ==
  Init /\ [][Next]_vars

\* ---------------------------------------------------------------- claims

\* task t has run get_bibtex
Started(t) ==
  task[t].pc # "new"

\* task t sent its first request
Requested(t) ==
  Len(task[t].reqs) >= 1

\* C1: an input that holds exactly one arXiv identifier (modern or legacy,
\* with or without a version suffix), bare or after "arxiv:" or after
\* "https://arxiv.org/abs/", resolves by extract_id with the arXiv patterns
\* to exactly that identifier: the suffix is kept and the prefix dropped.
C1_ArxivIdExtracted ==
  \A t \in DOMAIN task : \A c \in ArxivCases :
    (Started(t) /\ pats[t] = c[1] \o c[2]) =>
      /\ Requested(t)
      /\ task[t].id = c[2]
      /\ task[t].reqs[1] = [idtype |-> "Arxiv", id |-> c[2]]

C1_Witness ==
  \E t \in DOMAIN task :
    /\ pats[t] = <<"h","t","t","p","s",":","/","/","a","r","x","i","v",".","o","r","g","/","a","b","s","/","h","e","p","-","t","h","/","9","9","1","0","0","0","1","v","2">>
    /\ task[t].id = <<"h","e","p","-","t","h","/","9","9","1","0","0","0","1","v","2">>

\* the DOI conditions and the arXiv conditions of a pattern
DoiCond(pat) ==
  \/ DOI_IDENT_RE_is_match(pat)
  \/ is_match("DOI_RE", 1, pat)
  \/ is_match("DOI_RE", 2, pat)

ArxivCond(pat) ==
  \/ ARXIV_IDENT_RE_is_match(pat)
  \/ is_match("ARXIV_RE", 1, pat)
  \/ is_match("ARXIV_RE", 2, pat)

\* C2: classification has a fixed precedence.  The kind is DOI whenever the
\* DOI marker or a DOI shape (general or Wiley) matches, whatever arXiv
\* marker or shape is present too; it is arXiv only when no DOI condition
\* matches and an arXiv marker or shape does; otherwise the pattern is
\* rejected with "Please enter a valid DOI or arXiv ID!" and no request is
\* sent for it.
C2_ClassificationPrecedence ==
  \A t \in DOMAIN task :
    Started(t) =>
      /\ DoiCond(pats[t]) => task[t].idtype = "Doi"
      /\ task[t].idtype = "Arxiv" <=> (~DoiCond(pats[t]) /\ ArxivCond(pats[t]))
      /\ (~DoiCond(pats[t]) /\ ~ArxivCond(pats[t])) =>
           /\ task[t].idtype = "None"
           /\ task[t].pc = "exited"
           /\ proc = "exit"
           /\ stderr = MsgUnrecognized
           /\ task[t].reqs = << >>

C2_Witness ==
  \E t \in DOMAIN task :
    /\ pats[t] = <<"a","r","x","i","v",":","1","0",".","1","2","3","4","/","x">>
    /\ ARXIV_IDENT_RE_is_match(pats[t])
    /\ task[t].idtype = "Doi"
    /\ task[t].reqs = <<[idtype |-> "Doi", id |-> <<"1","0",".","1","2","3","4","/","x">>]>>

\* the answer res is a feed whose first entry declares a DOI
FeedWithDoi(res) ==
  /\ res.ok
  /\ Len(res.feed) = 1
  /\ Len(res.feed[1]) >= 1
  /\ Len(res.feed[1][1].doi) = 1

\* C3: when the arXiv feed entry declares a DOI, the record synthesis is
\* never entered, and the record the task returns is print_doi of the text
\* the DOI registry answered to one nested request for that DOI, sent by the
\* same task after the feed arrived.
C3_DeclaredDoiRedirects ==
  \A t \in DOMAIN task :
    (Len(task[t].resps) >= 1 /\ task[t].idtype = "Arxiv"
       /\ FeedWithDoi(task[t].resps[1])) =>
      /\ ~task[t].synth
      /\ Len(task[t].reqs) <= 2
      /\ task[t].pc \in {"ready", "printed"} =>
           /\ Len(task[t].reqs) = 2
           /\ task[t].reqs[2] =
                [idtype |-> "Doi", id |-> task[t].resps[1].feed[1][1].doi[1]]
           /\ Len(task[t].resps) = 2
           /\ task[t].val = print_doi(task[t].resps[2].text)

C3_Witness ==
  \E t \in DOMAIN task :
    /\ task[t].pc = "printed"
    /\ task[t].idtype = "Arxiv"
    /\ FeedWithDoi(task[t].resps[1])
    /\ task[t].resps[1].feed[1][1].categories = << >>
    /\ task[t].resps[2].text = <<"@","a","r","t","i","c","l","e","{","D","o","e","_","2","0","2","0",",","t","i","t","l","e","=","{","T","}",",","y","e","a","r","=","{","2","0","2","0","}","}">>
    /\ stdout = <<<<"@","a","r","t","i","c","l","e","{","D","o","e","_","2","0","2","0",",","\n"," "," ","t","i","t","l","e","=","{","T","}",",","\n"," "," ","y","e","a","r","=","{","2","0","2","0","}","\n","}">>>>

\* C4: extraction is idempotent: when a pattern resolved to kind K and id X,
\* classifying X gives K again and extracting from X gives X.
C4_ExtractionIdempotent ==
  \A t \in DOMAIN task :
    Requested(t) =>
      /\ classify(task[t].id) = task[t].idtype
      /\ extract_id(re_arr(task[t].idtype), task[t].id)
           = [res |-> "ok", id |-> task[t].id]

\* a request of kind idtype that ended in res failed: a transport error, a
\* status outside 2xx, or a DOI answer holding "cannot be found"
FailedFetch(res, idtype) ==
  \/ ~res.ok
  \/ ~res.readable
  \/ res.status \notin 200..299
  \/ idtype = "Doi" /\ Contains(res.text, <<"c","a","n","n","o","t"," ","b","e"," ","f","o","u","n","d">>)

\* the process has ended
Ended ==
  proc \in {"done", "exit", "panic"}

\* C5: tasks are isolated: a failure in one task does not abort its
\* siblings, so when the process has ended every task whose own pipeline
\* succeeded (no fetch of its own failed and its record was returned) has
\* had its record printed.
C5_TasksIsolated ==
  Ended =>
    \A t \in DOMAIN task :
      (\A k \in 1..Len(task[t].resps) :
         ~FailedFetch(task[t].resps[k], task[t].reqs[k].idtype))
        => task[t].pc # "ready"

\* C6: one task per distinct pattern: a pattern given several times has one
\* task, one first request and at most one printed record.
C6_OneTaskPerPattern ==
  proc # "start" =>
    /\ DOMAIN task = 1..Len(pats)
    /\ Range(pats) = Range(args)
    /\ \A p \in Range(args) :
         /\ Cardinality({t \in DOMAIN task : pats[t] = p}) = 1
         /\ Cardinality({t \in DOMAIN task : pats[t] = p /\ Requested(t)}) <= 1
         /\ Cardinality({t \in DOMAIN task :
                           pats[t] = p /\ task[t].pc = "printed"}) <= 1
    /\ Len(stdout) = Cardinality({t \in DOMAIN task : task[t].pc = "printed"})

C6_Witness ==
  /\ args = <<<<"1","0",".","1","0","0","0","/","x","y","z">>, <<"1","0",".","1","0","0","0","/","x","y","z">>>>
  /\ proc = "done"
  /\ Len(task) = 1
  /\ Len(task[1].reqs) = 1
  /\ Len(stdout) = 1

\* C7: print_doi is idempotent on its own outputs: applied to a record it
\* returned, it returns the record unchanged.
C7_PrintDoiIdempotent ==
  \A t \in DOMAIN task :
    task[t].pc \in {"ready", "printed"} => print_doi(task[t].val) = task[t].val

\* C8: every failed fetch ends the task with "Invalid DOI or arXiv ID!" and
\* its body reaches neither print_doi nor print_arxiv, so no record comes
\* of it.
C8_FailedFetchRejected ==
  \A t \in DOMAIN task : \A k \in 1..Len(task[t].resps) :
    FailedFetch(task[t].resps[k], task[t].reqs[k].idtype) =>
      /\ task[t].pc = "exited"
      /\ stderr = MsgInvalid
      /\ Len(task[t].resps) = k

\* C9: when both patterns of the kind's array match the input, extract_id
\* returns the match of the first pattern, trailing "/" trimmed.
C9_FirstPatternWins ==
  \A t \in DOMAIN task :
    (/\ Started(t)
     /\ task[t].idtype # "None"
     /\ Len(captures(re_arr(task[t].idtype), 1, pats[t])) = 1
     /\ Len(captures(re_arr(task[t].idtype), 2, pats[t])) = 1) =>
      /\ Requested(t)
      /\ task[t].id =
           trim_end_matches(captures(re_arr(task[t].idtype), 1, pats[t])[1], "/")

\* the parsed feed lacks something required: an entry, or the first
\* entry's authors, published date, id or categories
Incomplete(feed) ==
  \/ Len(feed) = 0
  \/ /\ Len(feed) >= 1
     /\ \/ Len(feed[1].authors) = 0
        \/ Len(feed[1].published) = 0
        \/ Len(feed[1].id) = 0
        \/ Len(feed[1].categories) = 0

\* C10: every incomplete arXiv payload ends print_arxiv in the same way,
\* with "Invalid DOI or arXiv ID!" and no record, whichever part is missing.
C10_IncompleteFeedRejected ==
  \A t \in DOMAIN task :
    (/\ task[t].idtype = "Arxiv"
     /\ Len(task[t].resps) >= 1
     /\ task[t].resps[1].ok
     /\ Len(task[t].resps[1].feed) = 1
     /\ Incomplete(task[t].resps[1].feed[1])) =>
      /\ task[t].pc = "exited"
      /\ stderr = MsgInvalid
      /\ Len(task[t].resps) = 1

====
